---- MODULE Spec2Model ----
(***************************************************************************)
(* Model of scripts/build_adguard_ipv6_blocklist.py: the line normalizer,  *)
(* the domain validator, the aggregator, the rule compiler and main().     *)
(*                                                                         *)
(* A Python str is a sequence of one-character strings.  None is a value   *)
(* that no str can equal.                                                  *)
(***************************************************************************)
EXTENDS Naturals, Integers, Sequences, FiniteSets, TLC

VARIABLES
    \* ---- main(): one run of the pipeline ----
    pc,             \* position of main(): "start", "next_file", "lines", "compile", "write", "done", "failed"
    source_dir,     \* what SOURCE_DIR is on disk: "missing", "file" or "dir"
    fs_files,       \* the texts of the .txt files read so far, in the order read (a text is a sequence of lines)
    source_files,   \* main's source_files: the sorted paths returned by iter_source_files, as 1..n
    file_idx,       \* index of the file the for loop of read_domains_from_files is at
    text,           \* lines of the file being read (text.splitlines())
    line_number,    \* enumerate(..., start=1) counter: number of the last line processed
    domains,        \* read_domains_from_files: domains (a set of str)
    warnings,       \* read_domains_from_files: warnings (a list)
    domains_sorted, \* main: domains_sorted
    rules_sorted,   \* main: rules_sorted
    output,         \* content of OUTPUT_FILE
    failed_in,      \* which step raised: "none", "discover", "read", "write"
    exit_code,      \* return value of main(): -1 while running
    \* ---- one line through the pure functions ----
    lpc,            \* position: "in", "direct", "extracted", "skipped", "validated", "warned", "ruled", "round"
    line,           \* the input string
    candidate,      \* extract_domain_from_line(line)
    valid,          \* is_valid_domain(...)
    rule,           \* build_adguard_rule(candidate)
    from_rule,      \* extract_domain_from_line(rule)
    from_domain     \* extract_domain_from_line(candidate): the line of a second run

mainVars == <<pc, source_dir, fs_files, source_files, file_idx, text, line_number, domains,
              warnings, domains_sorted, rules_sorted, output, failed_in, exit_code>>
lineVars == <<lpc, line, candidate, valid, rule, from_rule, from_domain>>
vars == <<pc, source_dir, fs_files, source_files, file_idx, text, line_number, domains,
          warnings, domains_sorted, rules_sorted, output, failed_in, exit_code,
          lpc, line, candidate, valid, rule, from_rule, from_domain>>

(***************************************************************************)
(* Characters and strings                                                  *)
(***************************************************************************)

\* The printable ASCII characters in code point order, from U+0020 (the
\* quotation mark, the reverse solidus and the grave accent stand under
\* their names).
Printable ==
    <<" ", "!", "QUOTATION MARK", "#", "$", "%", "&", "'", "(", ")", "*", "+", ",", "-", ".", "/",
      "0", "1", "2", "3", "4", "5", "6", "7", "8", "9", ":", ";", "<", "=", ">", "?",
      "@", "A", "B", "C", "D", "E", "F", "G", "H", "I", "J", "K", "L", "M", "N", "O",
      "P", "Q", "R", "S", "T", "U", "V", "W", "X", "Y", "Z", "[", "REVERSE SOLIDUS", "]", "^", "_",
      "GRAVE ACCENT", "a", "b", "c", "d", "e", "f", "g", "h", "i", "j", "k", "l", "m", "n", "o",
      "p", "q", "r", "s", "t", "u", "v", "w", "x", "y", "z", "{", "|", "}", "~">>

\* Code point of every character (tab is U+0009).
CodePoint ==
    [c \in {Printable[i] : i \in 1..Len(Printable)} \cup {"\t"} |->
        IF c = "\t" THEN 9
        ELSE 31 + (CHOOSE i \in 1..Len(Printable) : Printable[i] = c)]

\* ord(c)
Ord(c) == CodePoint[c]

Chr(n) == Printable[n - 31]

IsUpper(c) == Ord(c) >= 65 /\ Ord(c) <= 90
IsLowerAlpha(c) == Ord(c) >= 97 /\ Ord(c) <= 122
IsAlpha(c) == IsUpper(c) \/ IsLowerAlpha(c)
IsDigit(c) == Ord(c) >= 48 /\ Ord(c) <= 57
\* str.strip() and the regex class \s
IsSpace(c) == c \in {" ", "\t"}

\* str.lower(), one character
LowerChar(c) == IF IsUpper(c) THEN Chr(Ord(c) + 32) ELSE c
\* str.lower()
Lower(s) == [i \in 1..Len(s) |-> LowerChar(s[i])]

\* s[n:]
Drop(s, n) == IF n >= Len(s) THEN <<>> ELSE SubSeq(s, n + 1, Len(s))

\* s.startswith(p)
StartsWith(s, p) == Len(s) >= Len(p) /\ SubSeq(s, 1, Len(p)) = p
\* s.endswith(p)
EndsWith(s, p) == Len(s) >= Len(p) /\ SubSeq(s, Len(s) - Len(p) + 1, Len(s)) = p
\* p in s
Contains(s, p) == \E i \in 0..(Len(s) - Len(p)) : SubSeq(s, i + 1, i + Len(p)) = p
\* c in s, for a one-character c
HasChar(s, c) == \E i \in 1..Len(s) : s[i] = c
\* s.find(c) + 1: position of the first c (s contains c)
FirstIndex(s, c) == CHOOSE i \in 1..Len(s) : s[i] = c /\ \A j \in 1..(i - 1) : s[j] # c

\* s.lstrip()
RECURSIVE LStrip(_)
LStrip(s) == IF s # <<>> /\ IsSpace(s[1]) THEN LStrip(Tail(s)) ELSE s
\* s.rstrip()
RECURSIVE RStrip(_)
RStrip(s) == IF s # <<>> /\ IsSpace(s[Len(s)]) THEN RStrip(SubSeq(s, 1, Len(s) - 1)) ELSE s
\* s.strip()
Strip(s) == RStrip(LStrip(s))

\* s.rstrip("."): removes every trailing '.'
RECURSIVE RStripDots(_)
RStripDots(s) == IF s # <<>> /\ s[Len(s)] = "." THEN RStripDots(SubSeq(s, 1, Len(s) - 1)) ELSE s

\* s.split(c, 1)[0]
SplitFirst(s, c) == IF HasChar(s, c) THEN SubSeq(s, 1, FirstIndex(s, c) - 1) ELSE s

\* s.split(c): the parts between the occurrences of c
RECURSIVE Split(_, _)
Split(s, c) ==
    IF HasChar(s, c)
    THEN <<SubSeq(s, 1, FirstIndex(s, c) - 1)>> \o Split(Drop(s, FirstIndex(s, c)), c)
    ELSE <<s>>

\* a < b for Python str: code point order, a proper prefix is smaller
RECURSIVE StrLess(_, _)
StrLess(a, b) ==
    IF b = <<>> THEN FALSE
    ELSE IF a = <<>> THEN TRUE
    ELSE IF a[1] = b[1] THEN StrLess(Tail(a), Tail(b))
    ELSE Ord(a[1]) < Ord(b[1])

\* The value None
None == <<"None">>

(***************************************************************************)
(* The regular expressions                                                 *)
(***************************************************************************)

\* [A-Za-z0-9.-]
IsRuleDomainChar(c) == IsAlpha(c) \/ IsDigit(c) \/ c = "." \/ c = "-"
\* [a-z0-9-] under re.IGNORECASE
IsLabelChar(c) == IsAlpha(c) \/ IsDigit(c) \/ c = "-"

\* Every character of s is a letter: [A-Za-z]*
AllAlpha(s) == \A i \in 1..Len(s) : IsAlpha(s[i])
\* [a-z0-9-]* under re.IGNORECASE
AllLabelChars(s) == \A i \in 1..Len(s) : IsLabelChar(s[i])
\* [A-Za-z0-9.-]*
AllRuleDomainChars(s) == \A i \in 1..Len(s) : IsRuleDomainChar(s[i])

\* [A-Za-z0-9.-]+\.[A-Za-z]{2,} against the whole of d: the letters after
\* the last '.' are the {2,} group, what precedes that '.' is the + group
MatchesRuleDomain(d) ==
    /\ AllRuleDomainChars(d)
    /\ HasChar(d, ".")
    /\ LET parts == Split(d, ".")
           tld == parts[Len(parts)]
       IN /\ Len(tld) >= 2
          /\ AllAlpha(tld)
          /\ Len(d) - Len(tld) - 1 >= 1

\* \s*(?:\$.*)?\s*$ against what follows the '^'
MatchesRuleTail(r) ==
    LET t == LStrip(r)
    IN t = <<>> \/ t[1] = "$"

\* ADGUARD_RULE_DOMAIN_REGEX.match(s): the domain group, or None.
\* The group cannot contain '^', so it ends at the first '^' after "||".
AdguardRuleMatch(s) ==
    LET t == LStrip(s)
    IN IF StartsWith(t, <<"|", "|">>) /\ HasChar(Drop(t, 2), "^")
       THEN LET body == Drop(t, 2)
                d == SubSeq(body, 1, FirstIndex(body, "^") - 1)
                r == Drop(body, FirstIndex(body, "^"))
            IN IF MatchesRuleDomain(d) /\ MatchesRuleTail(r) THEN d ELSE None
       ELSE None

MaxDomainLen == 253
MaxLabelLen == 63
MinTldLen == 2
MaxTldLen == 63

\* DOMAIN_VALIDATION_REGEX.match(s) is not None.
\* (?=.{1,253}$) (?!-) (?:[a-z0-9-]{1,63}\.)+ [a-z]{2,63} $ : a label cannot
\* contain '.', so the labels are the parts between the dots; (?!-) looks
\* at the first character of the string only.
DomainRegexMatches(s) ==
    /\ Len(s) >= 1
    /\ Len(s) <= MaxDomainLen
    /\ s[1] # "-"
    /\ LET parts == Split(s, ".")
           n == Len(parts)
       IN /\ n >= 2
          /\ \A i \in 1..(n - 1) :
                /\ Len(parts[i]) >= 1
                /\ Len(parts[i]) <= MaxLabelLen
                /\ AllLabelChars(parts[i])
          /\ Len(parts[n]) >= MinTldLen
          /\ Len(parts[n]) <= MaxTldLen
          /\ AllAlpha(parts[n])

(***************************************************************************)
(* The pure functions                                                      *)
(***************************************************************************)

HttpsScheme == <<"h", "t", "t", "p", "s", ":", "/", "/">>
HttpScheme == <<"h", "t", "t", "p", ":", "/", "/">>
Wildcard == <<"*", ".">>
Punycode == <<"x", "n", "-", "-">>

StripScheme(d) ==
    IF StartsWith(d, HttpsScheme) THEN Drop(d, Len(HttpsScheme))
    ELSE IF StartsWith(d, HttpScheme) THEN Drop(d, Len(HttpScheme))
    ELSE d

StripWildcard(d) == IF StartsWith(d, Wildcard) THEN Drop(d, 2) ELSE d

StripPath(d) == IF HasChar(d, "/") THEN Strip(SplitFirst(d, "/")) ELSE d

\* d.removesuffix("."): one trailing '.' removed
StripOneTrailingDot(d) == IF d # <<>> /\ d[Len(d)] = "." THEN SubSeq(d, 1, Len(d) - 1) ELSE d

\* d.rstrip(".")
StripTrailingDot(d) == RStripDots(d)

normalize_domain(domain) ==
    StripTrailingDot(StripPath(StripWildcard(StripScheme(Lower(Strip(domain))))))

is_valid_domain(domain) ==
    IF Contains(domain, Punycode) THEN TRUE ELSE DomainRegexMatches(domain)

extract_domain_from_line(l) ==
    LET stripped == Strip(l)
    IN IF stripped = <<>> THEN None
       ELSE IF stripped[1] = "#" THEN None
       ELSE LET s2 == IF HasChar(stripped, "#") THEN Strip(SplitFirst(stripped, "#")) ELSE stripped
                m == AdguardRuleMatch(s2)
            IN IF s2 = <<>> THEN None
               ELSE IF m # None THEN normalize_domain(m)
               ELSE normalize_domain(s2)

RuleSuffix ==
    <<"^", "$", "d", "n", "s", "t", "y", "p", "e", "=", "A", "A", "A", "A", ",",
      "d", "n", "s", "r", "e", "w", "r", "i", "t", "e", "=", "N", "O", "E", "R", "R", "O", "R">>

build_adguard_rule(domain) == <<"|", "|">> \o domain \o RuleSuffix

(***************************************************************************)
(* The aggregator and main()                                               *)
(***************************************************************************)

\* sorted(S, reverse=True)
RECURSIVE SortedReverse(_)
SortedReverse(S) ==
    IF S = {} THEN <<>>
    ELSE LET greatest == CHOOSE a \in S : \A b \in S \ {a} : StrLess(b, a)
         IN <<greatest>> \o SortedReverse(S \ {greatest})

\* sorted(S) for a set of str
RECURSIVE Sorted(_)
Sorted(S) ==
    IF S = {} THEN <<>>
    ELSE LET least == CHOOSE a \in S : \A b \in S \ {a} : StrLess(a, b)
         IN <<least>> \o Sorted(S \ {least})

\* An insertion that keeps d only when it sorts after everything collected so far
AddDomainInOrder(S, d) == IF \A e \in S : StrLess(e, d) THEN S \cup {d} ELSE S

\* domains.add(domain)
AddDomain(S, d) == S \cup {d}

\* The warning of a rejected line: the source, the line number and repr(domain)
Warning(f, n, d) == [source |-> f, line_number |-> n, domain |-> d]

\* warnings.insert(0, ...)
PrependWarning(ws, w) == <<w>> \o ws

\* warnings.append(...)
AppendWarning(ws, w) == Append(ws, w)

\* [build_adguard_rule(d) for d in domains_sorted]
CompileRules(ds) == [i \in 1..Len(ds) |-> build_adguard_rule(ds[i])]

\* OUTPUT_FILE as the run finds it: absent, or what an earlier run wrote
OutputBefore == [status |-> "before", inputs |-> <<>>, rules |-> <<>>]

\* write_output(): the provenance lines and the rule lines, the whole file replaced
write_output(rules, files) == [status |-> "written", inputs |-> files, rules |-> rules]

\* A write that raised part-way: the file is there, its content is not the rules
OutputPartial == [status |-> "partial", inputs |-> <<>>, rules |-> <<>>]

\* write_output called as soon as the sources are known
ReadyToWriteEarly == pc \in {"next_file", "write"}

\* main() calls write_output once domains_sorted and rules_sorted are computed
ReadyToWrite == pc = "write"

\* domain = extract_domain_from_line(raw_line), for each line of ls in order
RECURSIVE CandidatesOf(_)
CandidatesOf(ls) ==
    IF ls = <<>> THEN <<>>
    ELSE <<extract_domain_from_line(Head(ls))>> \o CandidatesOf(Tail(ls))

\* The body of the loop of read_domains_from_files over the candidates cs,
\* in order: the domain set it ends with
RECURSIVE CollectValid(_)
CollectValid(cs) ==
    IF cs = <<>> THEN {}
    ELSE LET before == CollectValid(SubSeq(cs, 1, Len(cs) - 1))
             domain == cs[Len(cs)]
         IN IF domain = None THEN before
            ELSE IF ~is_valid_domain(domain) THEN before
            ELSE AddDomain(before, domain)

(***************************************************************************)
(* Inputs                                                                  *)
(***************************************************************************)

\* c repeated n times
Rep(c, n) == [i \in 1..n |-> c]

ACom == <<"a", ".", "c", "o", "m">>
BCom == <<"b", ".", "c", "o", "m">>
XnA == <<"x", "n", "-", "-", "a">>

\* Strings over Alphabet of length n
StringsOfLen(A, n) == [1..n -> A]
\* Strings over Alphabet of length at most n
StringsUpTo(A, n) == UNION {StringsOfLen(A, k) : k \in 0..n}

MaxLen == 3
Alphabet == {"a", "B", ".", "-", "*", "/", "#", " "}

\* Lines written out: the spellings of a domain, rule lines, URLs, comments,
\* punycode, and names at the length limits of the validation regex.
CorpusLines ==
    { ACom,
      <<"A", ".", "c", "o", "m">>,
      ACom \o <<".">>,
      ACom \o <<".", ".">>,
      <<" ", " ">> \o ACom \o <<" ">>,
      <<"*", ".">> \o ACom,
      <<"*", ".", "*", ".">> \o ACom,
      HttpsScheme \o ACom \o <<"/", "p">>,
      HttpScheme \o BCom,
      HttpScheme,
      <<"/", "p">>,
      <<"*", ".">>,
      <<"#", " ", "c">>,
      ACom \o <<" ", "#", " ", "c">>,
      <<"-">> \o BCom,
      <<"a", ".", "-", "b", ".", "c", "o", "m">>,
      <<"a", ".", ".", "b", ".", "c", "o", "m">>,
      <<"a", "-", "b", ".", "c", "o", "m">>,
      <<"c", "o", "m">>,
      <<"a", ".", "c">>,
      <<"a", ".", "c", "1">>,
      <<"b", "_", ".", "c", "o", "m">>,
      <<"B", "A", "D", "_", "/", "s", ".", "c", "o", "m">>,
      XnA,
      XnA \o <<".", "c", "o", "m">>,
      <<"a", ".">> \o XnA,
      <<"*", ".", "*", ".">> \o XnA,
      HttpScheme \o <<" ">> \o XnA,
      XnA \o <<" ", ".">>,
      <<"|", "|">> \o ACom \o <<"^">>,
      <<"|", "|">> \o <<"B", ".", "C", "o", "m">> \o <<"^", "$", "d", "n", "s", "t", "y", "p", "e", "=", "A", "A", "A", "A">>,
      build_adguard_rule(ACom),
      <<"|", "|">> \o ACom \o <<"^", "x">>,
      <<"|", "|">> \o ACom,
      <<"|", "|">> \o XnA \o <<"^">>,
      Rep("a", 63) \o <<".">> \o ACom,
      Rep("a", 64) \o <<".">> \o ACom,
      <<"a", ".">> \o Rep("c", 63),
      <<"a", ".">> \o Rep("c", 64),
      Rep("a", 63) \o <<".">> \o Rep("b", 63) \o <<".">> \o Rep("c", 63) \o <<".">> \o Rep("d", 57) \o <<".", "c", "o", "m">>,
      Rep("a", 63) \o <<".">> \o Rep("b", 63) \o <<".">> \o Rep("c", 63) \o <<".">> \o Rep("d", 58) \o <<".", "c", "o", "m">> }

\* The strings a line is drawn from
Inputs == CorpusLines \cup StringsUpTo(Alphabet, MaxLen)

(***************************************************************************)
(* One line through the pure functions                                     *)
(***************************************************************************)

MainIdle ==
    /\ pc = "idle"
    /\ source_dir = "missing"
    /\ fs_files = <<>>
    /\ source_files = <<>>
    /\ file_idx = 0
    /\ text = <<>>
    /\ line_number = 0
    /\ domains = {}
    /\ warnings = <<>>
    /\ domains_sorted = <<>>
    /\ rules_sorted = <<>>
    /\ output = OutputBefore
    /\ failed_in = "none"
    /\ exit_code = -1

LineIdle ==
    /\ lpc = "idle"
    /\ line = <<>>
    /\ candidate = None
    /\ valid = FALSE
    /\ rule = None
    /\ from_rule = None
    /\ from_domain = None

LineInit ==
    /\ MainIdle
    /\ lpc = "in"
    /\ line \in Inputs
    /\ candidate = None
    /\ valid = FALSE
    /\ rule = None
    /\ from_rule = None
    /\ from_domain = None

\* is_valid_domain applied to the input string itself
DirectValidate ==
    /\ lpc = "in"
    /\ valid' = is_valid_domain(line)
    /\ lpc' = "direct"
    /\ UNCHANGED <<line, candidate, rule, from_rule, from_domain>>
    /\ UNCHANGED mainVars

\* domain = extract_domain_from_line(raw_line)
LineExtract ==
    /\ lpc = "in"
    /\ candidate' = extract_domain_from_line(line)
    /\ lpc' = "extracted"
    /\ UNCHANGED <<line, valid, rule, from_rule, from_domain>>
    /\ UNCHANGED mainVars

\* if domain is None: continue
LineSkip ==
    /\ lpc = "extracted"
    /\ candidate = None
    /\ lpc' = "skipped"
    /\ UNCHANGED <<line, candidate, valid, rule, from_rule, from_domain>>
    /\ UNCHANGED mainVars

\* is_valid_domain(domain)
LineValidate ==
    /\ lpc = "extracted"
    /\ candidate # None
    /\ valid' = is_valid_domain(candidate)
    /\ lpc' = "validated"
    /\ UNCHANGED <<line, candidate, rule, from_rule, from_domain>>
    /\ UNCHANGED mainVars

\* if not is_valid_domain(domain): warnings.append(...); continue
LineWarn ==
    /\ lpc = "validated"
    /\ ~valid
    /\ lpc' = "warned"
    /\ UNCHANGED <<line, candidate, valid, rule, from_rule, from_domain>>
    /\ UNCHANGED mainVars

\* build_adguard_rule(d) for an accepted domain
LineRule ==
    /\ lpc = "validated"
    /\ valid
    /\ rule' = build_adguard_rule(candidate)
    /\ lpc' = "ruled"
    /\ UNCHANGED <<line, candidate, valid, from_rule, from_domain>>
    /\ UNCHANGED mainVars

\* The accepted domain and its rule line as input lines of another run
LineReextract ==
    /\ lpc = "ruled"
    /\ from_rule' = extract_domain_from_line(rule)
    /\ from_domain' = extract_domain_from_line(candidate)
    /\ lpc' = "round"
    /\ UNCHANGED <<line, candidate, valid, rule>>
    /\ UNCHANGED mainVars

LineNext ==
    \/ DirectValidate
    \/ LineExtract
    \/ LineSkip
    \/ LineValidate
    \/ LineWarn
    \/ LineRule
    \/ LineReextract

LineSpec == LineInit /\ [][LineNext]_vars

(***************************************************************************)
(* One run of main()                                                       *)
(***************************************************************************)

MaxFiles == 2
MaxTotalLines == 3

\* The lines the source files are made of: two spellings of a domain, a
\* rejected name, a comment, and a wildcard punycode name
PipelineLines ==
    { ACom,
      <<"A", ".", "c", "o", "m", ".">>,
      <<"-">> \o BCom,
      <<"#", " ", "c">>,
      <<"*", ".", "*", ".">> \o XnA }

\* The number of lines in a sequence of texts
RECURSIVE TotalLines(_)
TotalLines(fs) == IF fs = <<>> THEN 0 ELSE Len(Head(fs)) + TotalLines(Tail(fs))

\* The texts a file can hold when the files read before it hold fs
Texts(fs) == StringsUpTo(PipelineLines, MaxTotalLines - TotalLines(fs))

Init ==
    /\ LineIdle
    /\ pc = "start"
    /\ source_dir \in {"missing", "file", "dir"}
    /\ fs_files = <<>>
    /\ source_files = <<>>
    /\ file_idx = 0
    /\ text = <<>>
    /\ line_number = 0
    /\ domains = {}
    /\ warnings = <<>>
    /\ domains_sorted = <<>>
    /\ rules_sorted = <<>>
    /\ output = OutputBefore
    /\ failed_in = "none"
    /\ exit_code = -1

\* iter_source_files() returns the sorted .txt files; read_domains_from_files starts
DiscoverSources ==
    /\ pc = "start"
    /\ source_dir = "dir"
    /\ \E n \in 1..MaxFiles : source_files' = [i \in 1..n |-> i]
    /\ domains' = {}
    /\ warnings' = <<>>
    /\ file_idx' = 0
    /\ pc' = "next_file"
    /\ UNCHANGED <<source_dir, fs_files, text, line_number, domains_sorted, rules_sorted,
                   output, failed_in, exit_code>>
    /\ UNCHANGED lineVars

\* iter_source_files() raises FileNotFoundError, NotADirectoryError or
\* RuntimeError (a directory without .txt files); main's except clause returns 1
DiscoverFails ==
    /\ pc = "start"
    /\ failed_in' = "discover"
    /\ exit_code' = 1
    /\ pc' = "failed"
    /\ UNCHANGED <<source_dir, fs_files, source_files, file_idx, text, line_number, domains,
                   warnings, domains_sorted, rules_sorted, output>>
    /\ UNCHANGED lineVars

\* for file_path in files: text = file_path.read_text(...); text.splitlines()
ReadFile ==
    /\ pc = "next_file"
    /\ file_idx < Len(source_files)
    /\ file_idx' = file_idx + 1
    /\ \E t \in Texts(fs_files) :
          /\ text' = t
          /\ fs_files' = Append(fs_files, t)
    /\ line_number' = 0
    /\ pc' = "lines"
    /\ UNCHANGED <<source_dir, source_files, domains, warnings, domains_sorted,
                   rules_sorted, output, failed_in, exit_code>>
    /\ UNCHANGED lineVars

\* file_path.read_text() raises (the file cannot be read); main returns 1
ReadFileFails ==
    /\ pc = "next_file"
    /\ file_idx < Len(source_files)
    /\ file_idx' = file_idx + 1
    /\ failed_in' = "read"
    /\ exit_code' = 1
    /\ pc' = "failed"
    /\ UNCHANGED <<source_dir, fs_files, source_files, text, line_number, domains, warnings,
                   domains_sorted, rules_sorted, output>>
    /\ UNCHANGED lineVars

\* One iteration of the loop over the lines of a file
ProcessLine ==
    /\ pc = "lines"
    /\ line_number < Len(text)
    /\ LET n == line_number + 1
           domain == extract_domain_from_line(text[n])
       IN /\ line_number' = n
          /\ IF domain = None
             THEN UNCHANGED <<domains, warnings>>
             ELSE IF ~is_valid_domain(domain)
             THEN /\ warnings' = AppendWarning(warnings, Warning(source_files[file_idx], n, domain))
                  /\ UNCHANGED domains
             ELSE /\ domains' = AddDomain(domains, domain)
                  /\ UNCHANGED warnings
    /\ UNCHANGED <<pc, source_dir, fs_files, source_files, file_idx, text, domains_sorted,
                   rules_sorted, output, failed_in, exit_code>>
    /\ UNCHANGED lineVars

\* The lines of the file are exhausted: on to the next file
EndOfFile ==
    /\ pc = "lines"
    /\ line_number = Len(text)
    /\ pc' = "next_file"
    /\ UNCHANGED <<source_dir, fs_files, source_files, file_idx, text, line_number, domains,
                   warnings, domains_sorted, rules_sorted, output, failed_in, exit_code>>
    /\ UNCHANGED lineVars

\* read_domains_from_files returns; domains_sorted and rules_sorted are computed
Compile ==
    /\ pc = "next_file"
    /\ file_idx = Len(source_files)
    /\ domains_sorted' = Sorted(domains)
    /\ rules_sorted' = CompileRules(Sorted(domains))
    /\ pc' = "write"
    /\ UNCHANGED <<source_dir, fs_files, source_files, file_idx, text, line_number, domains,
                   warnings, output, failed_in, exit_code>>
    /\ UNCHANGED lineVars

\* write_output(OUTPUT_FILE, rules_sorted, source_files); main returns 0
WriteOutput ==
    /\ ReadyToWrite
    /\ output' = write_output(rules_sorted, source_files)
    /\ exit_code' = 0
    /\ pc' = "done"
    /\ UNCHANGED <<source_dir, fs_files, source_files, file_idx, text, line_number, domains,
                   warnings, domains_sorted, rules_sorted, failed_in>>
    /\ UNCHANGED lineVars

\* mkdir() or write_text() raises: the file is untouched or partly written; main returns 1
WriteOutputFails ==
    /\ ReadyToWrite
    /\ output' \in {output, OutputPartial}
    /\ failed_in' = "write"
    /\ exit_code' = 1
    /\ pc' = "failed"
    /\ UNCHANGED <<source_dir, fs_files, source_files, file_idx, text, line_number, domains,
                   warnings, domains_sorted, rules_sorted>>
    /\ UNCHANGED lineVars

Next ==
    \/ DiscoverSources
    \/ DiscoverFails
    \/ ReadFile
    \/ ReadFileFails
    \/ ProcessLine
    \/ EndOfFile
    \/ Compile
    \/ WriteOutput
    \/ WriteOutputFails

Spec == Init /\ [][Next]_vars

(***************************************************************************)
(* Properties                                                              *)
(***************************************************************************)

\* The positions of a line after extract_domain_from_line has run
Extracted == {"extracted", "skipped", "validated", "warned", "ruled", "round"}
\* The positions of a line after is_valid_domain has run on its candidate
Validated == {"validated", "warned", "ruled", "round"}

\* The shape C1 describes: 1-253 characters, labels separated by single dots,
\* non-final labels of 1-63 characters from [a-z0-9-] none starting with '-',
\* a final label of 2 or more letters; upper case letters count as lower case.
ClaimedShape(s) ==
    /\ Len(s) >= 1
    /\ Len(s) <= 253
    /\ LET parts == Split(s, ".")
           n == Len(parts)
       IN /\ n >= 2
          /\ \A i \in 1..(n - 1) :
                /\ Len(parts[i]) >= 1
                /\ Len(parts[i]) <= 63
                /\ \A k \in 1..Len(parts[i]) :
                      IsAlpha(parts[i][k]) \/ IsDigit(parts[i][k]) \/ parts[i][k] = "-"
                /\ parts[i][1] # "-"
          /\ Len(parts[n]) >= 2
          /\ \A k \in 1..Len(parts[n]) : IsAlpha(parts[n][k])

\* C1: for a string without "xn--", is_valid_domain returns true exactly when
\* the string has the claimed shape (so 'a.-b.com' is rejected).
C1_ValidIffClaimedShape ==
    (lpc = "direct" /\ ~Contains(line, Punycode)) => (valid <=> ClaimedShape(line))

\* C2: extract_domain_from_line returns None or a non-empty string; a line
\* whose normalization leaves nothing is skipped and never reaches the warning.
C2_CandidateNoneOrNonEmpty ==
    (lpc \in Extracted) => (candidate = None \/ candidate # <<>>)

\* C3: every string in the domain set is lowercase, has no leading "*.", no
\* leading "http://" or "https://", and no trailing '.'.
C3_DomainsAreCanonical ==
    \A d \in domains :
        /\ Lower(d) = d
        /\ ~StartsWith(d, Wildcard)
        /\ ~StartsWith(d, HttpScheme)
        /\ ~StartsWith(d, HttpsScheme)
        /\ ~EndsWith(d, <<".">>)

\* C4: an accepted domain, given as a line to a second run, is extracted as
\* itself and accepted again (the second run reproduces the list, no warning).
C4_SecondRunReproduces ==
    (lpc = "round") => (from_domain = candidate /\ is_valid_domain(from_domain))

\* C5: extract_domain_from_line(build_adguard_rule(d)) = d for every accepted
\* domain d, the ones accepted through "xn--" included.
C5_RuleRoundTrip ==
    (lpc = "round") => (from_rule = candidate)

\* The lines of all the files, in the order read
RECURSIVE Flatten(_)
Flatten(fs) == IF fs = <<>> THEN <<>> ELSE Head(fs) \o Flatten(Tail(fs))

\* cs in the order p: cs[p[1]], ..., cs[p[k]]
RECURSIVE Permuted(_, _, _)
Permuted(cs, p, k) == IF k = 0 THEN <<>> ELSE Append(Permuted(cs, p, k - 1), cs[p[k]])

\* C6: whatever the order of the input lines (within a source and across the
\* sources), a run over them ends with the sorted domain list and the rule
\* list that this run ended with.  (A line's candidate depends on the line
\* alone, so the lines are permuted after extraction.)
C6_OrderIndependent ==
    (pc = "done") =>
        LET cands == CandidatesOf(Flatten(fs_files))
        IN \A p \in Permutations(1..Len(cands)) :
              /\ Sorted(CollectValid(Permuted(cands, p, Len(cands)))) = domains_sorted
              /\ rules_sorted = CompileRules(domains_sorted)
              /\ output.rules = rules_sorted

\* C6 witness: a finished run over two files whose two domains came in the
\* order opposite to the sorted one.
C6_Witness ==
    /\ pc = "done"
    /\ Len(fs_files) = 2
    /\ Len(domains_sorted) = 2
    /\ LET flat == Flatten(fs_files)
       IN \E i \in 1..Len(flat) : \E j \in 1..Len(flat) :
             /\ i < j
             /\ extract_domain_from_line(flat[i]) = domains_sorted[2]
             /\ extract_domain_from_line(flat[j]) = domains_sorted[1]

\* The rejected lines among the first upto lines of file f, in line order:
\* source, line number, candidate
RECURSIVE RejectedIn(_, _)
RejectedIn(f, upto) ==
    IF upto = 0 THEN <<>>
    ELSE LET d == extract_domain_from_line(fs_files[f][upto])
         IN IF d # None /\ ~is_valid_domain(d)
            THEN Append(RejectedIn(f, upto - 1), [source |-> f, line_number |-> upto, domain |-> d])
            ELSE RejectedIn(f, upto - 1)

\* The rejected lines processed so far in files 1..f, in file order; the loop
\* is at line line_number of the last file read
RECURSIVE RejectedUpTo(_)
RejectedUpTo(f) ==
    IF f = 0 THEN <<>>
    ELSE RejectedUpTo(f - 1)
            \o RejectedIn(f, IF f = Len(fs_files) THEN line_number ELSE Len(fs_files[f]))

\* C7: the warnings are, in encounter order, exactly one entry (source, line
\* number, candidate) per processed line whose candidate is not None and is
\* rejected; a rejected candidate is not in the domain set.
C7_OneWarningPerRejectedLine ==
    /\ warnings = RejectedUpTo(Len(fs_files))
    /\ \A i \in 1..Len(warnings) : warnings[i].domain \notin domains

\* C7 witness: a finished run with warnings from two sources, the second one
\* not on the first line, and a domain accepted in between.
C7_Witness ==
    /\ pc = "done"
    /\ Len(warnings) = 2
    /\ warnings[1].source = 1
    /\ warnings[2].source = 2
    /\ warnings[2].line_number = 2
    /\ domains # {}

\* The accepted candidates of all the lines read
ValidDomainsOf(fs) ==
    LET cands == CandidatesOf(Flatten(fs))
    IN {d \in {cands[i] : i \in 1..Len(cands)} : d # None /\ is_valid_domain(d)}

\* A domain up to case and trailing dots
SpellingKey(d) == RStripDots(Lower(d))

\* C8: the rules are one per unique valid domain, each "||<domain>^$dnstype=
\* AAAA,dnsrewrite=NOERROR", in strictly increasing order of the domain, and
\* no two of them for spellings of the same domain; the written file has them.
C8_RulesSortedUnique ==
    (pc \in {"write", "done"}) =>
        /\ {domains_sorted[i] : i \in 1..Len(domains_sorted)} = ValidDomainsOf(fs_files)
        /\ Len(domains_sorted) = Cardinality({domains_sorted[i] : i \in 1..Len(domains_sorted)})
        /\ Len(rules_sorted) = Len(domains_sorted)
        /\ \A i \in 1..Len(rules_sorted) :
              rules_sorted[i] = <<"|", "|">> \o domains_sorted[i] \o RuleSuffix
        /\ \A i \in 1..Len(domains_sorted) : \A j \in 1..Len(domains_sorted) :
              i < j => /\ StrLess(domains_sorted[i], domains_sorted[j])
                       /\ SpellingKey(domains_sorted[i]) # SpellingKey(domains_sorted[j])
        /\ (pc = "done" => output.rules = rules_sorted)

\* C8 witness: a finished run that read 'a.com' and 'A.com.' and one more
\* domain, and wrote two rules.
C8_Witness ==
    /\ pc = "done"
    /\ Len(rules_sorted) = 2
    /\ \E i \in 1..Len(Flatten(fs_files)) : Flatten(fs_files)[i] = ACom
    /\ \E i \in 1..Len(Flatten(fs_files)) : Flatten(fs_files)[i] = <<"A", ".", "c", "o", "m", ".">>
    /\ output.rules = rules_sorted

\* C9: the output file changes only once every source file has been read and
\* the rules are compiled, and what is written is the compiled rules; a run
\* whose source discovery or source read fails returns 1 and leaves the file
\* as it was.
C9_NoOutputBeforeResult ==
    /\ (output # OutputBefore) =>
          /\ pc \in {"done", "failed"}
          /\ failed_in \in {"none", "write"}
          /\ file_idx = Len(source_files)
          /\ Len(fs_files) = Len(source_files)
          /\ line_number = Len(text)
          /\ {domains_sorted[i] : i \in 1..Len(domains_sorted)} = domains
          /\ rules_sorted = [i \in 1..Len(domains_sorted) |-> build_adguard_rule(domains_sorted[i])]
          /\ (output.status = "written" => output.rules = rules_sorted)
    /\ (failed_in \in {"discover", "read"}) => (exit_code = 1 /\ output = OutputBefore)
    /\ (pc = "failed") => (exit_code = 1)

\* C9 witness: the second source file could not be read after the first one
\* had contributed a domain; the run has failed.
C9_Witness ==
    /\ pc = "failed"
    /\ failed_in = "read"
    /\ file_idx = 2
    /\ domains # {}
    /\ exit_code = 1

\* A line that is nothing but a lowercase dotted name: no whitespace, comment,
\* scheme, wildcard, path or rule syntax for the normalizer to remove
IsDottedName(s) ==
    /\ s # <<>>
    /\ \A i \in 1..Len(s) : IsLowerAlpha(s[i]) \/ IsDigit(s[i]) \/ s[i] = "-" \/ s[i] = "."

\* The number of '.' at the end of s
RECURSIVE TrailingDots(_)
TrailingDots(s) ==
    IF s # <<>> /\ s[Len(s)] = "." THEN 1 + TrailingDots(SubSeq(s, 1, Len(s) - 1)) ELSE 0

ExampleTwoDots == ACom \o <<".", ".">>

\* C10 as stated: of two or more trailing dots exactly one is removed, the
\* candidate still ends with '.', and the validator rejects it.
C10_SingleDotStripped ==
    (lpc \in Extracted /\ IsDottedName(line) /\ TrailingDots(line) >= 2) =>
        /\ candidate = SubSeq(line, 1, Len(line) - 1)
        /\ (lpc \in Validated => ~valid)

\* C10 amended: normalization removes every trailing '.', so the candidate of
\* a name ending in two or more dots is the name without them, it never ends
\* with '.', and 'a.com..' is accepted as 'a.com' without a warning.
C10_AllTrailingDotsStripped ==
    /\ (lpc \in Extracted /\ candidate # None) => ~EndsWith(candidate, <<".">>)
    /\ (lpc \in Extracted /\ IsDottedName(line) /\ TrailingDots(line) >= 2) =>
          candidate = SubSeq(line, 1, Len(line) - TrailingDots(line))
    /\ (lpc \in Extracted /\ line = ExampleTwoDots) =>
          /\ candidate = ACom
          /\ lpc # "warned"
          /\ (lpc \in Validated => valid)

\* C10 witness: 'a.com..' has been extracted, accepted and turned into a rule.
C10_Witness ==
    /\ lpc = "ruled"
    /\ line = ExampleTwoDots
    /\ candidate = ACom
    /\ valid

====
